---- MODULE Spec2Model ----
(***************************************************************************)
(* Session lifecycle and stress classification of src/app.py: the module   *)
(* level state (buffered_data, is_logging, current_id), the MongoDB        *)
(* collection, and the request handlers /startLogging, /stopLogging,       *)
(* /data (GET, POST), /startAll and /stopAll.                              *)
(***************************************************************************)
EXTENDS Integers, Sequences, FiniteSets, TLC

\* ---------------------------------------------------------------- bounds
MaxBuf == 2          \* samples the buffer may hold before ingestion is cut off
MaxRecords == 1      \* documents the collection may hold before inserts fail

\* ------------------------------------------------------- program constants
TempMin == 26
TempMax == 38

\* ------------------------------------------------------------ input values
None == "None"                       \* Python None in a string position
Absent == -1                         \* Python None in a numeric position
Ids == {"a", "b"}                    \* non-empty candidate ids
IdInputs == Ids \cup {None}          \* body.get('id'): present or absent
\* JSON bodies of POST /data; Absent marks a missing field.  bpm 0 is present
\* though falsy, 38 is the upper bound of the accepted range, 39 is outside.
SampleInputs == {[bpm |-> 0, temperature |-> 38],
                 [bpm |-> 72, temperature |-> 39],
                 [bpm |-> Absent, temperature |-> 38],
                 [bpm |-> 72, temperature |-> Absent]}
Times == {1}                         \* readings of datetime.now()
PredVals == {0, 1}                   \* per-sample values model.predict may return
\* Inputs of predict_stress_from_data taken alone: temperatures on both sides
\* of each limit, and the classes 0..2 that the divisor 2 of line 56 scales
\* to a stress of 0..1.
ClassTemps == {25, 26, 38, 39}
ClassVals == {0, 1, 2}

VARIABLES buffered_data, is_logging, current_id, collection,
          request, response, calls,
          stop_pc, stop_df, stop_stress, acked,
          arg_data, arg_P, ret,
          gaze_session, started_id

\* The program's state and the last request served.
session == <<buffered_data, is_logging, current_id, collection>>

\* A /stopLogging request in progress on its own thread: its position, the
\* frame it gave the classifier, the classifier's result; and the samples
\* POST /data has acknowledged since the last successful start.
conc == <<stop_pc, stop_df, stop_stress, acked>>

\* One call of predict_stress_from_data: its argument, what model.predict
\* returns in it, and its return value.
pure == <<arg_data, arg_P, ret>>

\* The last successful start: whether it was /startAll, and the id it gave.
hist == <<gaze_session, started_id>>

vars == <<buffered_data, is_logging, current_id, collection,
          request, response, calls,
          stop_pc, stop_df, stop_stress, acked,
          arg_data, arg_P, ret,
          gaze_session, started_id>>

\* ------------------------------------------------------------ data shapes
NoSample == [bpm |-> Absent, temperature |-> Absent, datetime |-> 0]
NoStress == [status |-> "none", stress |-> "none", average_stress |-> -1]
\* /stopLogging's record has no gaze fields: they are kept with these values.
NoGaze == [gaze_patterns |-> "none", focus_index |-> -1]
GazeResult == [gaze_patterns |-> "patterns", focus_index |-> 50]

\* A request as it reaches its handler: the route, the body's fields, and
\* what the handler finds in is_logging and buffered_data.
Request(op, id, bpm, temp) ==
    [op |-> op, id |-> id, bpm |-> bpm, temperature |-> temp,
     active |-> is_logging, buffered |-> Len(buffered_data)]

Response(code, status, sample, stress, gaze) ==
    [code |-> code, status |-> status, sample |-> sample,
     stress_result |-> stress, gaze_result |-> gaze]

\* An exception escaping a handler: Flask answers 500.
Fault == Response(500, "fault", NoSample, NoStress, -1)

\* ---------------------------------------------------------- pure helpers
RECURSIVE Sum(_)
Sum(P) == IF P = <<>> THEN 0 ELSE P[1] + Sum(Tail(P))

\* All sequences over S of length n.
SeqsOfLen(S, n) == [1..n -> S]

\* round(num/den) to the nearest integer, ties to even (float formatting).
RoundHalfEven(num, den) ==
    LET q == num \div den
        r == num % den
    IN  IF 2 * r < den THEN q
        ELSE IF 2 * r > den THEN q + 1
        ELSE IF q % 2 = 0 THEN q ELSE q + 1

TempOutOfRange_Inclusive(data) ==
    \E i \in 1..Len(data) : data[i].TEMP <= TempMin \/ data[i].TEMP >= TempMax

\* sum((TEMP < 26) | (TEMP > 38)) is non-zero.
TempOutOfRange(data) ==
    \E i \in 1..Len(data) : data[i].TEMP < TempMin \/ data[i].TEMP > TempMax

AvgStressLess_OrEqual(P, num, den) == Sum(P) * den <= num * (Len(P) * 2)

AvgStressLess_DivN(P, num, den) == Sum(P) * den < num * Len(P)

\* avg_stress = np.sum(P) / (len(P) * 2), compared with num/den.
AvgStressLess(P, num, den) == Sum(P) * den < num * (Len(P) * 2)

StressLabel(P) ==
    IF AvgStressLess(P, 25, 100) THEN "Resilient"
    ELSE IF AvgStressLess(P, 75, 100) THEN "Adaptive"
    ELSE "Overwhelmed"

AverageStress_DivN(P) == RoundHalfEven(Sum(P) * 100 * 100, Len(P))

\* f"{avg_stress * 100:.2f}%", kept as hundredths of a percent.
AverageStress(P) == RoundHalfEven(Sum(P) * 100 * 100, Len(P) * 2)

\* predict_stress_from_data(data) when model.predict returns P.
\* "raise" stands for the KeyError of df["TEMP"] on a frame with no columns.
predict_stress_from_data(data, P) ==
    IF data = <<>>
    THEN [status |-> "raise", stress |-> "none", average_stress |-> -1]
    ELSE IF TempOutOfRange(data)
    THEN [status |-> "failure", stress |-> "none", average_stress |-> -1]
    ELSE [status |-> "success", stress |-> StressLabel(P),
          average_stress |-> AverageStress(P)]

\* Prediction vectors model.predict may return for data: one value per row
\* of X, a function of the row's columns HR and TEMP (line 52 drops datetime).
\* Line 54 is reached only with a frame that has rows, all in range.
Predictions(data) ==
    IF data = << >> \/ TempOutOfRange(data)
    THEN {<< >>}
    ELSE {P \in SeqsOfLen(PredVals, Len(data)) :
            \A i, j \in 1..Len(data) :
                (data[i].HR = data[j].HR /\ data[i].TEMP = data[j].TEMP)
                  => P[i] = P[j]}

\* `if not current_id`
IdMissing(id) == id \in {None, ""}

FieldMissing_Range(bpm, temp) ==
    bpm = Absent \/ temp = Absent \/ temp < TempMin \/ temp > TempMax

FieldMissing_Falsy(bpm, temp) == bpm <= 0 \/ temp <= 0

\* `if bpm is None or temp is None`
FieldMissing(bpm, temp) == bpm = Absent \/ temp = Absent

LoggingActive_Always == TRUE

\* `if is_logging`
LoggingActive == is_logging

StartBuffer_Kept(buf) == buf

\* buffered_data = [] on start
StartBuffer(buf) == << >>

LatestData_First(buf) == buf[1]

\* buffered_data[-1]
LatestData(buf) == buf[Len(buf)]

\* The document handed to collection.insert_one.
CandidateRecord(id, stress_result, data, gaze) ==
    [candidateId |-> id,
     averageStress |-> stress_result.average_stress,
     stressStatus |-> stress_result.stress,
     gaze_patterns |-> gaze.gaze_patterns,
     focus_index |-> gaze.focus_index,
     biometrics |-> data]

InsertOne_Twice(coll, record) == Append(Append(coll, record), record)

\* collection.insert_one(candidate_record): one new document after the others.
InsertOne(coll, record) == Append(coll, record)

\* --------------------------------------------------------------- initial
\* The module-level state after import, with no request served yet.
SessionInit ==
    /\ buffered_data = << >>
    /\ is_logging = FALSE
    /\ current_id = None
    /\ collection = << >>
    /\ request = [op |-> "init", id |-> None, bpm |-> Absent, temperature |-> Absent,
                  active |-> FALSE, buffered |-> 0]
    /\ response = Response(0, "none", NoSample, NoStress, -1)
    /\ calls = {}
    /\ stop_pc = "idle"
    /\ stop_df = << >>
    /\ stop_stress = NoStress
    /\ acked = << >>
    /\ gaze_session = FALSE
    /\ started_id = None

Init ==
    /\ SessionInit
    /\ arg_data = << >>
    /\ arg_P = << >>
    /\ ret = NoStress

\* ---------------------------------------------------------------- actions
\* POST /startLogging
start_logging_stress ==
    \E id \in IdInputs :
        /\ request' = Request("startLogging", id, Absent, Absent)
        /\ calls' = {}
        /\ current_id' = id
        /\ IF IdMissing(id)
           THEN /\ response' = Response(400, "failure", NoSample, NoStress, -1)
                /\ UNCHANGED <<buffered_data, is_logging, collection>>
           ELSE /\ is_logging' = TRUE
                /\ buffered_data' = StartBuffer(buffered_data)
                /\ response' = Response(200, "success", NoSample, NoStress, -1)
                /\ UNCHANGED collection

\* POST /startAll
start_all_logging ==
    \E id \in IdInputs :
        /\ request' = Request("startAll", id, Absent, Absent)
        /\ current_id' = id
        /\ IF IdMissing(id)
           THEN /\ response' = Response(400, "failure", NoSample, NoStress, -1)
                /\ calls' = {}
                /\ UNCHANGED <<buffered_data, is_logging, collection>>
           ELSE /\ is_logging' = TRUE
                /\ buffered_data' = StartBuffer(buffered_data)
                /\ calls' = {"gaze_start"}
                /\ \/ response' = Response(200, "success", NoSample, NoStress, -1)
                   \/ response' = Fault      \* start_logging() raises
                /\ UNCHANGED collection

\* POST /stopLogging
stop_logging_stress ==
    /\ request' = Request("stopLogging", None, Absent, Absent)
    /\ IF LoggingActive
       THEN \E P \in Predictions(buffered_data) :
              LET stress_result == predict_stress_from_data(buffered_data, P)
                  candidate_record ==
                      CandidateRecord(current_id, stress_result, buffered_data, NoGaze)
              IN  IF stress_result.status # "success"
                  THEN \* KeyError: in predict (no rows) or on stress_result["average_stress"]
                       /\ calls' = {"classifier"}
                       /\ response' = Fault
                       /\ UNCHANGED <<buffered_data, is_logging, current_id, collection>>
                  ELSE /\ calls' = {"classifier", "persist"}
                       /\ \/ \* collection.insert_one raises
                             /\ response' = Fault
                             /\ UNCHANGED <<buffered_data, is_logging, current_id, collection>>
                          \/ /\ Len(collection) < MaxRecords
                             /\ collection' = InsertOne(collection, candidate_record)
                             /\ buffered_data' = << >>
                             /\ is_logging' = FALSE
                             /\ current_id' = None
                             /\ response' = Response(200, "success", NoSample,
                                                     stress_result, -1)
       ELSE /\ calls' = {}
            /\ response' = Response(400, "failure", NoSample, NoStress, -1)
            /\ UNCHANGED <<buffered_data, is_logging, current_id, collection>>

\* POST /stopAll
stop_all_logging ==
    /\ request' = Request("stopAll", None, Absent, Absent)
    /\ IF LoggingActive
       THEN \E P \in Predictions(buffered_data) :
              LET stress_result == predict_stress_from_data(buffered_data, P)
                  candidate_record ==
                      CandidateRecord(current_id, stress_result, buffered_data, GazeResult)
              IN  IF stress_result.status = "raise"
                  THEN \* KeyError inside predict_stress_from_data
                       /\ calls' = {"classifier"}
                       /\ response' = Fault
                       /\ UNCHANGED <<buffered_data, is_logging, current_id, collection>>
                  ELSE IF stress_result.status = "failure"
                  THEN \* stop_logging() ran or raised, then KeyError on
                       \* stress_result["average_stress"]
                       /\ calls' = {"classifier", "gaze_stop"}
                       /\ response' = Fault
                       /\ UNCHANGED <<buffered_data, is_logging, current_id, collection>>
                  ELSE \/ \* stop_logging() raises
                          /\ calls' = {"classifier", "gaze_stop"}
                          /\ response' = Fault
                          /\ UNCHANGED <<buffered_data, is_logging, current_id, collection>>
                       \/ \* collection.insert_one raises
                          /\ calls' = {"classifier", "gaze_stop", "persist"}
                          /\ response' = Fault
                          /\ UNCHANGED <<buffered_data, is_logging, current_id, collection>>
                       \/ /\ Len(collection) < MaxRecords
                          /\ calls' = {"classifier", "gaze_stop", "persist"}
                          /\ collection' = InsertOne(collection, candidate_record)
                          /\ buffered_data' = << >>
                          /\ is_logging' = FALSE
                          /\ current_id' = None
                          /\ response' = Response(200, "success", NoSample, stress_result,
                                                  GazeResult.focus_index)
       ELSE /\ calls' = {}
            /\ response' = Response(400, "failure", NoSample, NoStress, -1)
            /\ UNCHANGED <<buffered_data, is_logging, current_id, collection>>

\* POST /data
receive_data_post ==
    /\ calls' = {}
    /\ UNCHANGED <<is_logging, current_id, collection>>
    /\ \E data \in SampleInputs :
         LET bpm == data.bpm
             temp == data.temperature
         IN  /\ request' = Request("postData", None, bpm, temp)
             /\ IF FieldMissing(bpm, temp)
                THEN /\ response' = Response(400, "failure", NoSample, NoStress, -1)
                     /\ UNCHANGED buffered_data
                ELSE \E now \in Times :
                     /\ Len(buffered_data) < MaxBuf
                     /\ buffered_data' = Append(buffered_data,
                            [HR |-> bpm, TEMP |-> temp, datetime |-> now])
                     /\ response' = Response(200, "success", NoSample, NoStress, -1)

\* GET /data
receive_data_get ==
    /\ request' = Request("getData", None, Absent, Absent)
    /\ calls' = {}
    /\ UNCHANGED <<buffered_data, is_logging, current_id, collection>>
    /\ IF buffered_data # << >>
       THEN LET latest_data == LatestData(buffered_data)
            IN  response' = Response(200, "success",
                                [bpm |-> latest_data.HR,
                                 temperature |-> latest_data.TEMP,
                                 datetime |-> latest_data.datetime],
                                NoStress, -1)
       ELSE response' = Response(404, "failure", NoSample, NoStress, -1)

\* ------------------------------------------- requests served one at a time
StartLogging == start_logging_stress /\ UNCHANGED <<conc, pure, hist>>
StartAll == start_all_logging /\ UNCHANGED <<conc, pure, hist>>
StopLogging == stop_logging_stress /\ UNCHANGED <<conc, pure, hist>>
StopAll == stop_all_logging /\ UNCHANGED <<conc, pure, hist>>
PostData == receive_data_post /\ UNCHANGED <<conc, pure, hist>>
GetData == receive_data_get /\ UNCHANGED <<conc, pure, hist>>

Next ==
    \/ StartLogging
    \/ StartAll
    \/ StopLogging
    \/ StopAll
    \/ PostData
    \/ GetData

Spec == Init /\ [][Next]_vars

\* ----------------------------------- /stopLogging racing the sensor feed
\* app.run serves each request on its own thread and the handlers take no
\* lock, so a POST /data can run between any two statements of
\* stop_logging_stress.

\* A session is started while no stop is in progress.
T_Start ==
    /\ UNCHANGED <<pure, hist>>
    /\ stop_pc = "idle"
    /\ start_logging_stress
    /\ acked' = IF response'.code = 200 THEN << >> ELSE acked
    /\ UNCHANGED <<stop_pc, stop_df, stop_stress>>

\* The sensor feed posts a sample (list.append is one step under the GIL).
T_Feed ==
    /\ UNCHANGED <<pure, hist>>
    /\ receive_data_post
    /\ acked' = IF response'.code = 200
                THEN Append(acked, LatestData(buffered_data'))
                ELSE acked
    /\ UNCHANGED <<stop_pc, stop_df, stop_stress>>

\* Lines 115-116: test is_logging, build the frame and classify it.
T_StopClassify ==
    /\ UNCHANGED <<pure, hist>>
    /\ stop_pc = "idle"
    /\ UNCHANGED <<session, acked>>
    /\ IF LoggingActive
       THEN \E P \in Predictions(buffered_data) :
              LET stress_result == predict_stress_from_data(buffered_data, P)
              IN  /\ stop_df' = buffered_data
                  /\ stop_stress' = stress_result
                  /\ calls' = {"classifier"}
                  /\ IF stress_result.status # "success"
                     THEN /\ request' = Request("stopLogging", None, Absent, Absent)
                          /\ response' = Fault
                          /\ UNCHANGED stop_pc
                     ELSE /\ stop_pc' = "classified"
                          /\ UNCHANGED <<request, response>>
       ELSE /\ request' = Request("stopLogging", None, Absent, Absent)
            /\ response' = Response(400, "failure", NoSample, NoStress, -1)
            /\ calls' = {}
            /\ UNCHANGED <<stop_pc, stop_df, stop_stress>>

\* Lines 118-125: the record refers to the list buffered_data itself, which
\* insert_one encodes as it is when the insert runs.
T_StopInsert ==
    /\ UNCHANGED <<pure, hist>>
    /\ stop_pc = "classified"
    /\ calls' = {"classifier", "persist"}
    /\ UNCHANGED <<buffered_data, is_logging, current_id, stop_df, stop_stress, acked>>
    /\ \/ /\ request' = Request("stopLogging", None, Absent, Absent)
          /\ response' = Fault
          /\ stop_pc' = "idle"
          /\ UNCHANGED collection
       \/ /\ Len(collection) < MaxRecords
          /\ collection' = InsertOne(collection,
                 CandidateRecord(current_id, stop_stress, buffered_data, NoGaze))
          /\ stop_pc' = "inserted"
          /\ UNCHANGED <<request, response>>

\* Lines 126-134: reset the session and answer.
T_StopReset ==
    /\ UNCHANGED <<pure, hist>>
    /\ stop_pc = "inserted"
    /\ buffered_data' = << >>
    /\ is_logging' = FALSE
    /\ current_id' = None
    /\ request' = Request("stopLogging", None, Absent, Absent)
    /\ response' = Response(200, "success", NoSample, stop_stress, -1)
    /\ stop_pc' = "idle"
    /\ UNCHANGED <<collection, calls, stop_df, stop_stress, acked>>

ThreadedNext ==
    \/ T_Start
    \/ T_Feed
    \/ T_StopClassify
    \/ T_StopInsert
    \/ T_StopReset

ThreadedSpec == Init /\ [][ThreadedNext]_vars

\* --------------------------- requests served one at a time, with history
\* The handlers as in Spec; next to them is kept what the last successful
\* start was (hist) and which samples POST /data has acknowledged since it
\* (acked, at most MaxBuf of them).
StartHistory(with_gaze) ==
    IF response'.code = 200
    THEN /\ gaze_session' = with_gaze
         /\ started_id' = request'.id
         /\ acked' = << >>
    ELSE UNCHANGED <<gaze_session, started_id, acked>>

StopHistory ==
    /\ gaze_session' = IF response'.code = 200 THEN FALSE ELSE gaze_session
    /\ UNCHANGED <<started_id, acked>>

H_StartLogging ==
    /\ start_logging_stress
    /\ StartHistory(FALSE)
    /\ UNCHANGED <<stop_pc, stop_df, stop_stress, pure>>

H_StartAll ==
    /\ start_all_logging
    /\ StartHistory(TRUE)
    /\ UNCHANGED <<stop_pc, stop_df, stop_stress, pure>>

H_StopLogging ==
    /\ stop_logging_stress
    /\ StopHistory
    /\ UNCHANGED <<stop_pc, stop_df, stop_stress, pure>>

H_StopAll ==
    /\ stop_all_logging
    /\ StopHistory
    /\ UNCHANGED <<stop_pc, stop_df, stop_stress, pure>>

H_PostData ==
    /\ Len(acked) < MaxBuf
    /\ receive_data_post
    /\ acked' = IF response'.code = 200
                THEN Append(acked, LatestData(buffered_data'))
                ELSE acked
    /\ UNCHANGED <<stop_pc, stop_df, stop_stress, pure, hist>>

H_GetData == receive_data_get /\ UNCHANGED <<conc, pure, hist>>

HistoryNext ==
    \/ H_StartLogging
    \/ H_StartAll
    \/ H_StopLogging
    \/ H_StopAll
    \/ H_PostData
    \/ H_GetData

HistorySpec == Init /\ [][HistoryNext]_vars

\* ------------------------------------- predict_stress_from_data taken alone
\* Frames of up to MaxBuf rows with any of ClassTemps, and one class per row.
ClassifyInputs ==
    UNION {SeqsOfLen({[HR |-> 72, TEMP |-> t, datetime |-> 1] : t \in ClassTemps}, n)
             : n \in 0..MaxBuf}

ClassifyInit ==
    /\ SessionInit
    /\ arg_data \in ClassifyInputs
    /\ arg_P \in SeqsOfLen(ClassVals, Len(arg_data))
    /\ ret = NoStress

\* The call: ret becomes what the function returns (or its KeyError).
Classify ==
    /\ ret = NoStress
    /\ ret' = predict_stress_from_data(arg_data, arg_P)
    /\ UNCHANGED <<session, request, response, calls, conc, hist, arg_data, arg_P>>

ClassifyNext == Classify

ClassifySpec == ClassifyInit /\ [][ClassifyNext]_vars

\* ------------------------------------------------------------ properties
StartOps == {"startLogging", "startAll"}
StopOps == {"stopLogging", "stopAll"}
IdSet(id) == id # None /\ id # ""

\* C1: a stop invoked while Active that reaches the persistence call leaves
\* the buffer empty, the state Idle and the candidate id cleared, whether the
\* insert succeeds or raises.
C1_ResetAfterStop ==
    [][(is_logging /\ request'.op \in StopOps /\ "persist" \in calls')
         => (buffered_data' = << >> /\ ~is_logging' /\ current_id' = None)]_vars

\* C2: in every reachable state the candidate id is set (non-empty) exactly
\* when the state is Active.
C2_IdSetIffActive == IdSet(current_id) <=> is_logging

\* C3: when a /stopLogging that ran next to the sensor feed has completed, the
\* persisted biometrics are the samples the classifier was given, and the
\* acknowledged samples are those of the record followed by those in the buffer.
C3_StopSerializedWithFeed ==
    (stop_pc = "idle" /\ request.op = "stopLogging" /\ response.code = 200)
      => /\ collection[Len(collection)].biometrics = stop_df
         /\ acked = collection[Len(collection)].biometrics \o buffered_data

\* C4: a /startAll whose gaze start hook raises propagates the fault and
\* leaves state, candidate id and buffer as they were.
C4_AtomicStartWithGaze ==
    [][(request'.op = "startAll" /\ "gaze_start" \in calls'
          /\ response'.code # 200)
         => (response' = Fault
             /\ UNCHANGED <<buffered_data, is_logging, current_id>>)]_vars

\* C5: a stop requested while Idle answers 400 failure, changes neither the
\* buffer, the state, the candidate id nor the collection, and calls no
\* collaborator.
C5_StopWhileIdle ==
    [][(~is_logging /\ request'.op \in StopOps)
         => (response'.code = 400 /\ response'.status = "failure"
             /\ UNCHANGED session /\ calls' = {})]_vars

C5_Witness ==
    /\ request.op \in StopOps /\ ~request.active
    /\ response.code = 400
    /\ buffered_data # << >> /\ collection # << >>

\* C6: a stop requested while Active over a buffer holding a temperature
\* outside [26, 38] answers with status failure, not with an unhandled fault.
C6_OutOfRangeIsFailure ==
    [][(is_logging /\ request'.op \in StopOps /\ TempOutOfRange(buffered_data))
         => (response'.status = "failure" /\ response'.code # 500)]_vars

\* C7: a stop requested while Active over an empty buffer fails with a
\* handled InsufficientData outcome, not with an unhandled fault.
C7_EmptyIsInsufficientData ==
    [][(is_logging /\ request'.op \in StopOps /\ buffered_data = << >>)
         => response' # Fault]_vars

\* C8: a start with a non-empty id while Active leaves the state Active with
\* the new id and an empty buffer and persists nothing; /startLogging answers
\* 200 success.
C8_LastStartWins ==
    [][(is_logging /\ request'.op \in StartOps /\ request'.id \in Ids)
         => (/\ is_logging' /\ current_id' = request'.id
             /\ buffered_data' = << >>
             /\ collection' = collection /\ "persist" \notin calls'
             /\ (request'.op = "startLogging"
                   => response'.code = 200 /\ response'.status = "success"))]_vars

C8_Witness ==
    /\ request.op = "startLogging" /\ request.active /\ request.buffered > 0
    /\ response.code = 200
    /\ is_logging /\ buffered_data = << >>

\* C9: POST /data with both fields present appends that sample as the last
\* buffer element, Idle or Active, and a GET /data served next returns it.
C9_IngestThenQuery ==
    [][/\ (request'.op = "postData"
             /\ request'.bpm # Absent /\ request'.temperature # Absent)
          => (/\ response'.code = 200
              /\ Len(buffered_data') = Len(buffered_data) + 1
              /\ SubSeq(buffered_data', 1, Len(buffered_data)) = buffered_data
              /\ buffered_data'[Len(buffered_data')].HR = request'.bpm
              /\ buffered_data'[Len(buffered_data')].TEMP = request'.temperature)
       /\ (request.op = "postData" /\ response.code = 200 /\ request'.op = "getData")
          => (/\ response'.code = 200
              /\ response'.sample.bpm = request.bpm
              /\ response'.sample.temperature = request.temperature
              /\ response'.sample.datetime
                   = buffered_data[Len(buffered_data)].datetime)]_vars

C9_Witness ==
    /\ request.op = "postData" /\ ~request.active /\ ~is_logging
    /\ response.code = 200
    /\ buffered_data[Len(buffered_data)].HR = request.bpm

\* C10: GET /data returns the last buffer element when the buffer is not
\* empty and 404 when it is; served right after a successful start or stop it
\* answers 404.
C10_QueryLatest ==
    [][/\ request'.op = "getData"
          => IF buffered_data # << >>
             THEN /\ response'.code = 200
                  /\ response'.sample.bpm = buffered_data[Len(buffered_data)].HR
                  /\ response'.sample.temperature
                       = buffered_data[Len(buffered_data)].TEMP
                  /\ response'.sample.datetime
                       = buffered_data[Len(buffered_data)].datetime
             ELSE response'.code = 404 /\ response'.status = "failure"
       /\ (request.op \in StartOps \cup StopOps /\ response.code = 200
             /\ request'.op = "getData")
          => response'.code = 404]_vars

C10_Witness ==
    /\ request.op = "getData" /\ response.code = 200
    /\ Len(buffered_data) = 2 /\ buffered_data[1] # buffered_data[2]
    /\ response.sample.temperature = buffered_data[2].TEMP

\* C11: on a non-empty frame with every temperature in [26, 38] the call
\* succeeds and labels avgStress = sum(P)/(2n) by the table: Resilient below
\* 0.25, Adaptive from 0.25 to below 0.75, Overwhelmed from 0.75.
C11_ThresholdTable ==
    (/\ ret # NoStress /\ arg_data # << >>
     /\ \A i \in 1..Len(arg_data) : arg_data[i].TEMP \in 26..38)
      => LET s == Sum(arg_P)
             n == Len(arg_P)
         IN  /\ ret.status = "success"
             /\ ret.stress = "Resilient" <=> 2 * s < n
             /\ ret.stress = "Adaptive" <=> (n <= 2 * s /\ 2 * s < 3 * n)
             /\ ret.stress = "Overwhelmed" <=> 3 * n <= 2 * s

C11_Witness ==
    /\ ret.status = "success" /\ ret.stress = "Overwhelmed"
    /\ 2 * Sum(arg_P) = 3 * Len(arg_P)

\* C12: the call answers failure, with no label and no score, exactly when
\* some row's temperature is below 26 or above 38.
C12_OutOfRangeIff ==
    ret # NoStress
      => /\ ret.status = "failure"
              <=> \E i \in 1..Len(arg_data) :
                      arg_data[i].TEMP < 26 \/ arg_data[i].TEMP > 38
         /\ ret.status = "failure"
              => (ret.stress = "none" /\ ret.average_stress = -1)

C12_Witness ==
    /\ ret.status = "failure" /\ Len(arg_data) = 2
    /\ arg_data[1].TEMP = 38 /\ arg_data[2].TEMP = 39

\* C13: a successful call reports 100 * sum(P)/(2n) to two decimals, between
\* 0 and 100 (here in hundredths of a percent).
C13_ScorePercent ==
    ret.status = "success"
      => LET s == Sum(arg_P)
             n == Len(arg_P)
         IN  /\ ret.average_stress \in 0..10000
             /\ (2 * n * ret.average_stress - 10000 * s) \in -n..n

C13_Witness ==
    /\ ret.status = "success" /\ ret.average_stress = 10000
    /\ \A i \in 1..Len(arg_P) : arg_P[i] = 2

\* C19: with every prediction 0 or 1 a successful call never labels
\* Overwhelmed and never reports more than 50 percent; Overwhelmed needs a
\* prediction above 1.
C19_BinaryNeverOverwhelmed ==
    ret.status = "success"
      => /\ (\A i \in 1..Len(arg_P) : arg_P[i] \in {0, 1})
              => (ret.stress # "Overwhelmed" /\ ret.average_stress <= 5000)
         /\ ret.stress = "Overwhelmed" => \E i \in 1..Len(arg_P) : arg_P[i] > 1

C19_Witness ==
    /\ ret.status = "success" /\ Len(arg_P) = 2
    /\ \A i \in 1..Len(arg_P) : arg_P[i] = 1
    /\ ret.stress = "Adaptive" /\ ret.average_stress = 5000

C15_GazeStopIffGazeSession ==
    [][/\ "gaze_stop" \in calls' => gaze_session
       /\ (gaze_session /\ is_logging /\ ~is_logging') => "gaze_stop" \in calls']_vars

\* C16: the record a stop persists carries the id of the last successful
\* start and, as biometrics, the samples acknowledged since that start in
\* their order, which is also the buffer the classifier was given.
C16_RecordOfSession ==
    [][(request'.op \in StopOps /\ response'.code = 200)
         => LET record == collection'[Len(collection')]
            IN  /\ record.candidateId = started_id
                /\ record.biometrics = acked
                /\ "classifier" \in calls'
                /\ buffered_data = record.biometrics]_vars

\* C17: POST /data validates no range: with both fields present the sample
\* becomes the last buffer element whatever its temperature, and with heart
\* rate or temperature missing the request is rejected and the buffer is as
\* it was.
C17_NoRangeCheckAtIngest ==
    [][request'.op = "postData"
         => IF request'.bpm # Absent /\ request'.temperature # Absent
            THEN /\ response'.code = 200
                 /\ buffered_data' # << >>
                 /\ LatestData(buffered_data').TEMP = request'.temperature
                 /\ LatestData(buffered_data').HR = request'.bpm
                 /\ SubSeq(buffered_data', 1, Len(buffered_data')-1) = buffered_data
            ELSE /\ response'.code = 400
                 /\ buffered_data' = buffered_data]_vars

C17_Witness ==
    /\ request.op = "postData" /\ response.code = 200
    /\ request.temperature > TempMax
    /\ buffered_data # << >>
    /\ LatestData(buffered_data).TEMP = request.temperature

\* C18: a start rejected for a missing id leaves the session state, the id
\* and the buffer as they were, Idle or Active, and does not call the gaze
\* start hook.
C18_RejectedStartChangesNothing ==
    [][(request'.op \in StartOps /\ response'.code = 400)
         => /\ UNCHANGED <<buffered_data, is_logging, current_id>>
            /\ "gaze_start" \notin calls']_vars

====
